---- MODULE Spec2Model ----
(***************************************************************************)
(* Bank of Brown: the data access layer (dal.js, kept in                   *)
(* src/backend/controllers/accountController.js from line 644 on) and the  *)
(* account router built on it (same file, lines 1-288), over the "users"   *)
(* collection whose indexes src/backend/models/user.js declares.           *)
(*                                                                         *)
(* Node runs one handler at a time between awaits, so every action below   *)
(* is the code between two awaits of one call: a store command is atomic,  *)
(* and other calls may run between two commands of the same call.          *)
(* Store commands are assumed to answer (no network failure is modelled).  *)
(***************************************************************************)
EXTENDS Integers, Sequences, FiniteSets, TLC

\* ---------------------------------------------------------------- bounds
MaxBalance == 3      \* |balance| stays within this
MaxAmount == 2       \* largest amount a caller passes
MaxAccounts == 2     \* account numbers drawn, standing for the 10-digit range

\* Two callers: the races of this code are between two calls.
Callers == {1, 2}
Emails == {"ana@x.com", "missing@x.com"}
Amounts == (0 - 1)..MaxAmount
Balances == (0 - MaxBalance)..MaxBalance
AccountNumbers == 1..MaxAccounts

\* What the driver stores for a JavaScript undefined (BSON null), and what an
\* index sees for a field the document lacks.
Absent == "absent"
NoNumber == 0

\* ---------------------------------------------------------------- numbers
\* JavaScript's NaN, which is also what the store keeps for a double NaN.
NaN == 999

\* a + b, a < b, a <= b and -a on JavaScript numbers: NaN spreads through
\* arithmetic and every comparison with it is false.
add(a, b) == IF a = NaN \/ b = NaN THEN NaN ELSE a + b
lessThan(a, b) == a # NaN /\ b # NaN /\ a < b
atMost(a, b) == a # NaN /\ b # NaN /\ a <= b
negate(a) == IF a = NaN THEN NaN ELSE 0 - a

\* Text is a sequence of characters.
Digits == <<"0", "1", "2", "3", "4", "5", "6", "7", "8", "9">>
isDigit(c) == \E d \in 1..Len(Digits) : Digits[d] = c
digitValue(c) == (CHOOSE d \in 1..Len(Digits) : Digits[d] = c) - 1

RECURSIVE digitsValue(_)
digitsValue(text) ==
    IF text = <<>> THEN 0
    ELSE digitsValue(SubSeq(text, 1, Len(text) - 1)) * Len(Digits)
           + digitValue(text[Len(text)])

\* parseFloat(text), for whole numbers: an optional sign and the longest run
\* of digits after it; NaN when there is no digit there.
parseFloat(text) ==
    LET neg == text # <<>> /\ text[1] = "-"
        body == IF neg THEN Tail(text) ELSE text
        n == CHOOSE m \in 0..Len(body) :
                /\ \A j \in 1..m : isDigit(body[j])
                /\ m = Len(body) \/ ~isDigit(body[m + 1])
        value == digitsValue(SubSeq(body, 1, n))
    IN IF n = 0 THEN NaN ELSE IF neg THEN 0 - value ELSE value

\* The decimal text of a one-digit amount.
numeral(n) ==
    IF n < 0 THEN <<"-", Digits[(0 - n) + 1]>> ELSE <<Digits[n + 1]>>

\* The `amount` of a request body: a numeral, or text that is no number.
AmountTexts == {numeral(n) : n \in Amounts} \cup {<<"a", "b", "c">>}

\* ----------------------------------------------------------------- state
VARIABLES
    users,     \* the "users" collection, in insertion order
    db,        \* dal.js `let db`: 0 while undefined, else the client it came from
    client,    \* dal.js `let client`: 0 while undefined, else a client id
    conns,     \* how many times MongoClient.connect has been called
    reqs,      \* per caller: the call in flight, its locals and its result
    created,   \* emails for which POST /create has answered 201 (history)
    form,      \* the state of the Withdraw form in the browser
    closed     \* the clients on which close() has been called

vars == <<users, db, client, conns, reqs, created, form, closed>>

\* ------------------------------------------------------------ the store

\* db.collection('users').findOne({ email }): the position of the first
\* document with that email, 0 for null.
findOne(coll, email) ==
    IF \E k \in 1..Len(coll) : coll[k].email = email
    THEN CHOOSE k \in 1..Len(coll) :
            /\ coll[k].email = email
            /\ \A j \in 1..(k - 1) : coll[j].email # email
    ELSE 0

\* Variant: the command overwrites the balance ($set) instead of adding to it.
findOneAndUpdate_set(coll, email, delta) ==
    LET k == findOne(coll, email) IN
    IF k = 0 THEN coll
    ELSE [coll EXCEPT ![k].balance = delta]

\* Variant: the filter is ignored and every document is incremented.
findOneAndUpdate_all(coll, email, delta) ==
    [k \in 1..Len(coll) |-> [coll[k] EXCEPT !.balance = add(coll[k].balance, delta)]]

\* findOneAndUpdate({ email }, { $inc: { balance: delta } }): one store command,
\* no upsert; the collection is unchanged when nothing matches.
findOneAndUpdate(coll, email, delta) ==
    LET k == findOne(coll, email) IN
    IF k = 0 THEN coll
    ELSE [coll EXCEPT ![k].balance = add(coll[k].balance, delta)]

\* The unique indexes of the schema (email, accountNumber); a missing or null
\* field is indexed as null, so two documents lacking it collide.
duplicateKey_numberOnly(coll, doc) ==
    \E k \in 1..Len(coll) : coll[k].accountNumber = doc.accountNumber

duplicateKey(coll, doc) ==
    \E k \in 1..Len(coll) :
        \/ coll[k].email = doc.email
        \/ coll[k].accountNumber = doc.accountNumber

\* updateOne's view of the same indexes: the document at position k, once
\* changed into doc, collides with another document.
updateConflict_none(coll, k, doc) == FALSE

updateConflict(coll, k, doc) ==
    \E j \in 1..Len(coll) :
        /\ j # k
        /\ \/ coll[j].email = doc.email
           \/ coll[j].accountNumber = doc.accountNumber

\* { $set: newData }: the fields newData names are overwritten, the others kept.
merge_keep(doc, newData) == doc

merge(doc, newData) ==
    [f \in DOMAIN doc |-> IF f \in DOMAIN newData THEN newData[f] ELSE doc[f]]

\* JavaScript null where a document is expected (no field at all).
NoDoc == [f \in {} |-> 0]

\* Variant: the insert replaces the collection by the new document.
insertOne_replace(coll, doc) == <<doc>>

\* collection.insertOne(doc) once the indexes admit it.
insertOne(coll, doc) == Append(coll, doc)

\* A number held by the browser, and the undefined it holds when a response has
\* no such field.
Num(n) == <<n>>
Undefined == <<>>

\* A plain string value of the name field; POST /create stores an object there.
Str(s) == <<s>>

\* bcrypt.hash(password, saltRounds): text from which the password can be
\* checked, and that differs from it.
bcryptHash(password) == "$2b$10$" \o password

\* Variant: every password passes the comparison.
bcryptCompare_always(data, hash) == "match"

\* bcrypt.compare(data, hash, callback): the callback gets an error when data
\* or hash is missing, otherwise whether hash was made from data.
bcryptCompare(data, hash) ==
    IF data = Absent \/ hash = Absent THEN "error"
    ELSE IF hash = bcryptHash(data) THEN "match"
    ELSE "mismatch"

\* The document createUser builds, here with the balance later deposits left.
createUser(name, email, password, accountNumber, balance) ==
    [name |-> Str(name), email |-> email, password |-> password,
     balance |-> balance, accountNumber |-> accountNumber,
     accountType |-> "checking", role |-> "user"]

\* Variant: the new document starts with a balance of 1.
createDoc_bonus(name, email, password) ==
    [name |-> name, email |-> email, password |-> password,
     balance |-> 1, accountNumber |-> NoNumber,
     accountType |-> Absent, role |-> Absent]

\* const doc = { name, email, password, balance: 0 } of create(); the fields
\* it does not set are absent from the stored document.
createDoc(name, email, password) ==
    [name |-> name, email |-> email, password |-> password,
     balance |-> 0, accountNumber |-> NoNumber,
     accountType |-> Absent, role |-> Absent]

\* ----------------------------------------------------- deposit / withdraw

\* Variant: the missing-record check is skipped for deposits.
depositError_nofind(found, amount) ==
    IF atMost(amount, 0) THEN "InvalidAmount" ELSE "ok"

\* deposit(), after its store command: the error thrown, or "ok".
depositError(found, amount) ==
    IF atMost(amount, 0) THEN "InvalidAmount"
    ELSE IF ~found THEN "NotFound"
    ELSE "ok"

\* Variants of withdraw's checks: a balance equal to the amount refused, the
\* sufficiency check left out, an amount of zero let through.
withdrawError_strict(found, balance, amount) ==
    IF atMost(amount, 0) THEN "InvalidAmount"
    ELSE IF ~found THEN "NotFound"
    ELSE IF atMost(balance, amount) THEN "InsufficientFunds"
    ELSE "ok"

withdrawError_nofunds(found, balance, amount) ==
    IF atMost(amount, 0) THEN "InvalidAmount"
    ELSE IF ~found THEN "NotFound"
    ELSE "ok"

withdrawError_zero(found, balance, amount) ==
    IF lessThan(amount, 0) THEN "InvalidAmount"
    ELSE IF ~found THEN "NotFound"
    ELSE IF lessThan(balance, amount) THEN "InsufficientFunds"
    ELSE "ok"

\* Variant: the record is looked for before the amount is checked.
withdrawError_findFirst(found, balance, amount) ==
    IF ~found THEN "NotFound"
    ELSE IF atMost(amount, 0) THEN "InvalidAmount"
    ELSE IF lessThan(balance, amount) THEN "InsufficientFunds"
    ELSE "ok"

\* withdraw(), after its findOne: the error thrown, or "ok".
withdrawError(found, balance, amount) ==
    IF atMost(amount, 0) THEN "InvalidAmount"
    ELSE IF ~found THEN "NotFound"
    ELSE IF lessThan(balance, amount) THEN "InsufficientFunds"
    ELSE "ok"

\* --------------------------------------------------------------- callers

Idle ==
    [op |-> "idle", email |-> Absent, amount |-> 0, pc |-> "idle",
     bal |-> 0, outcome |-> "-", ret |-> 0, conn |-> 0,
     acct |-> NoNumber, status |-> 0, prior |-> FALSE,
     script |-> FALSE, dep |-> 0, wd |-> 0,
     via |-> "", data |-> NoDoc, doc |-> NoDoc,
     password |-> Absent, token |-> FALSE]

\* The status a handler of the router answers with once the repository call it
\* awaits has returned (`found`: the result is not null) or thrown; 0 for a call
\* made without the router.
respond(via, outcome, found) ==
    IF via = "" \/ via = "createBankAccount" THEN 0
    ELSE IF outcome # "ok" THEN 500
    ELSE IF ~found THEN 404
    ELSE 200

\* POST /createbank answers 200 without looking at what the repository returned.
noNullTest(via) == via = "POST /createbank"

\* The first store command of each repository function or handler.
firstPc(op) ==
    CASE op = "create" -> "insertOne"
      [] op = "deposit" -> "findOneAndUpdate"
      [] op = "withdraw" -> "findOne"
      [] op = "POST /create" -> "find"
      [] op = "update" -> "updateOne"
      [] op = "findOne" -> "findOne user"
      [] op = "POST /login" -> "login find"
      [] op = "update-profile" -> "findUserByEmail"
      [] op = "find" -> "find users"
      [] op = "all" -> "all users"
      [] op = "data" -> "findUserByEmail data"

\* connectToMongo up to its first await: with db set it returns at once,
\* otherwise MongoClient.connect is called and awaited.
enter(i, r) ==
    IF db # 0
    THEN /\ reqs' = [reqs EXCEPT ![i] = [r EXCEPT !.pc = firstPc(r.op)]]
         /\ conns' = conns
    ELSE /\ reqs' = [reqs EXCEPT ![i] = [r EXCEPT !.pc = "connecting",
                                                  !.conn = conns + 1]]
         /\ conns' = conns + 1

\* The process has just started (db and client undefined); the collection is
\* empty or holds one user made by createUser, with what deposits left it.
Init ==
    /\ users \in {<<>>} \cup
          {<<createUser("Ana", "ana@x.com", bcryptHash("secret"), 1, b)>> :
              b \in 0..MaxBalance}
    /\ db = 0
    /\ client = 0
    /\ conns = 0
    /\ reqs = [i \in Callers |-> Idle]
    /\ created = {}
    /\ form = [email |-> "", balance |-> Num(0), loadingBalance |-> FALSE,
               fetched |-> FALSE]
    /\ closed = {}

\* A caller invokes one of the repository functions `ops` with an amount of `amts`.
invoke(i, ops, amts) ==
    /\ reqs[i].pc = "idle"
    /\ \E op \in ops, e \in Emails, amt \in amts :
          /\ op = "create" => amt = 0
          /\ enter(i, [Idle EXCEPT !.op = op, !.email = e, !.amount = amt])
    /\ UNCHANGED <<users, db, client, created, form, closed>>

\* Requests arrive while others are in flight: deposit or withdraw is called.
Call(i) == invoke(i, {"deposit", "withdraw"}, Amounts)

\* Requests arrive while others are in flight: withdraw of a positive amount.
CallWithdraw(i) == invoke(i, {"withdraw"}, 1..MaxAmount)

\* No other call is in flight.
Quiet(i) == \A j \in Callers \ {i} : reqs[j].pc = "idle"

\* One call at a time: create, deposit or withdraw is called and awaited.
SeqCall(i) == Quiet(i) /\ invoke(i, {"create", "deposit", "withdraw"}, Amounts)

\* client = await MongoClient.connect(...); db = client.db(defaultDbName)
connectToMongo(i) ==
    /\ reqs[i].pc = "connecting"
    /\ client' = reqs[i].conn
    /\ db' = reqs[i].conn
    /\ reqs' = [reqs EXCEPT ![i].pc = firstPc(reqs[i].op)]
    /\ UNCHANGED <<users, conns, created, form, closed>>

\* create(name, email, password): insertOne, then return result.ops[0].
create(i) ==
    /\ reqs[i].pc = "insertOne"
    /\ LET doc == createDoc(Str("Ana"), reqs[i].email, "secret") IN
       IF duplicateKey(users, doc)
       THEN /\ users' = users
            /\ reqs' = [reqs EXCEPT ![i].pc = "done", ![i].outcome = "DuplicateKey"]
       ELSE /\ users' = insertOne(users, doc)
            /\ reqs' = [reqs EXCEPT ![i].pc = "done", ![i].outcome = "ok",
                                    ![i].ret = doc.balance]
    /\ UNCHANGED <<db, client, conns, created, form, closed>>

\* deposit(email, amount): the $inc command runs first, the checks after it.
deposit(i) ==
    /\ reqs[i].pc = "findOneAndUpdate"
    /\ reqs[i].op = "deposit"
    /\ LET r == reqs[i]
           after == findOneAndUpdate(users, r.email, r.amount)
           k == findOne(after, r.email)
           err == depositError(k # 0, r.amount)
       IN /\ k # 0 => after[k].balance \in Balances \cup {NaN}
          /\ users' = after
          /\ reqs' = [reqs EXCEPT ![i].pc = "done", ![i].outcome = err,
                                  ![i].status = respond(r.via, err, k # 0),
                                  ![i].ret = IF err = "ok" /\ k # 0
                                             THEN after[k].balance ELSE 0]
    /\ UNCHANGED <<db, client, conns, created, form, closed>>

\* withdraw(email, amount), first half: findOne and the three checks.
withdraw_findOne(i) ==
    /\ reqs[i].pc = "findOne"
    /\ LET r == reqs[i]
           k == findOne(users, r.email)
           bal == IF k = 0 THEN 0 ELSE users[k].balance
           err == withdrawError(k # 0, bal, r.amount)
       IN reqs' = [reqs EXCEPT ![i].bal = IF err = "ok" THEN bal ELSE 0,
                               ![i].pc = IF err = "ok" THEN "findOneAndUpdate" ELSE "done",
                               ![i].outcome = IF err = "ok" THEN "-" ELSE err,
                               ![i].status = IF err = "ok" THEN 0
                                             ELSE respond(r.via, err, TRUE)]
    /\ UNCHANGED <<users, db, client, conns, created, form, closed>>

\* withdraw(email, amount), second half: the $inc of -amount, return result.value.
withdraw_findOneAndUpdate(i) ==
    /\ reqs[i].pc = "findOneAndUpdate"
    /\ reqs[i].op = "withdraw"
    /\ LET r == reqs[i]
           after == findOneAndUpdate(users, r.email, negate(r.amount))
           k == findOne(after, r.email)
       IN /\ k # 0 => after[k].balance \in Balances \cup {NaN}
          /\ users' = after
          /\ reqs' = [reqs EXCEPT ![i].pc = "done", ![i].outcome = "ok", ![i].bal = 0,
                                  ![i].status = respond(r.via, "ok", k # 0),
                                  ![i].ret = IF k = 0 THEN 0 ELSE after[k].balance]
    /\ UNCHANGED <<db, client, conns, created, form, closed>>

\* A scripted caller has more to do: create returned, deposit returned.
Pending(r) == r.script /\ r.pc = "done" /\ r.outcome = "ok" /\ r.op # "withdraw"

\* The caller takes the result (or the thrown error) and is free again.
Return(i) ==
    /\ reqs[i].pc = "done"
    /\ ~Pending(reqs[i])
    /\ reqs' = [reqs EXCEPT ![i] = Idle]
    /\ UNCHANGED <<users, db, client, conns, created, form, closed>>

\* ------------------------------------------- the scripted run of section 8
\* create(name, e, password), then deposit(e, a), then withdraw(e, b), each
\* awaited before the next; a thrown error ends the run.
Scenario(i) ==
    /\ Quiet(i)
    /\ reqs[i].pc = "idle"
    /\ \E e \in Emails, a \in 1..MaxAmount :
         \E b \in 1..a :
            enter(i, [Idle EXCEPT !.op = "create", !.email = e,
                                  !.script = TRUE, !.dep = a, !.wd = b])
    /\ UNCHANGED <<users, db, client, created, form, closed>>

Continue(i) ==
    /\ Pending(reqs[i])
    /\ LET r == reqs[i] IN
       enter(i, [r EXCEPT !.op = IF r.op = "create" THEN "deposit" ELSE "withdraw",
                          !.amount = IF r.op = "create" THEN r.dep ELSE r.wd,
                          !.outcome = "-", !.ret = 0])
    /\ UNCHANGED <<users, db, client, created, form, closed>>

\* ------------------------------------------------------ update of a record
\* The account type asked for; a new user's record says "checking".
AccountTypes == {"savings"}

\* update(email, newData) is called with the fields POST /update passes.
CallUpdate(i) ==
    /\ reqs[i].pc = "idle"
    /\ \E e \in Emails, n \in {"Ana", "Bob"} :
          enter(i, [Idle EXCEPT !.op = "update", !.email = e,
                                !.data = [name |-> Str(n), password |-> "secret"]])
    /\ UNCHANGED <<users, db, client, created, form, closed>>

\* Requests arrive while others are in flight: create is called.
CallCreate(i) == invoke(i, {"create"}, {0})

\* createBankAccount(email, accountType): the number is drawn, then
\* update(email, { accountNumber, accountType }) is called and returned.
createBankAccount(i) ==
    /\ reqs[i].pc = "idle"
    /\ \E e \in Emails, n \in AccountNumbers, t \in AccountTypes :
          enter(i, [Idle EXCEPT !.op = "update", !.email = e,
                                !.via = "createBankAccount",
                                !.data = [accountNumber |-> n, accountType |-> t]])
    /\ UNCHANGED <<users, db, client, created, form, closed>>

\* update(), first command: updateOne({ email }, { $set: newData }); with
\* modifiedCount other than 1 it returns null, a rejected write throws.
update_updateOne(i) ==
    /\ reqs[i].pc = "updateOne"
    /\ LET r == reqs[i]
           k == findOne(users, r.email)
           doc == IF k = 0 THEN NoDoc ELSE merge(users[k], r.data)
       IN IF k = 0 \/ doc = users[k]
          THEN /\ users' = users
               /\ reqs' = [reqs EXCEPT ![i].pc = "done", ![i].outcome = "ok",
                                       ![i].status = respond(r.via, "ok", noNullTest(r.via))]
          ELSE IF updateConflict(users, k, doc)
          THEN /\ users' = users
               /\ reqs' = [reqs EXCEPT ![i].pc = "done", ![i].outcome = "DuplicateKey",
                                       ![i].status = respond(r.via, "DuplicateKey", TRUE)]
          ELSE /\ users' = [users EXCEPT ![k] = doc]
               /\ reqs' = [reqs EXCEPT ![i].pc = "findOne after update"]
    /\ UNCHANGED <<db, client, conns, created, form, closed>>

\* update(), second command: findOne({ email }) and return what it finds.
update_findOne(i) ==
    /\ reqs[i].pc = "findOne after update"
    /\ LET k == findOne(users, reqs[i].email) IN
       reqs' = [reqs EXCEPT ![i].pc = "done", ![i].outcome = "ok",
                            ![i].status = respond(reqs[i].via, "ok",
                                                  k # 0 \/ noNullTest(reqs[i].via)),
                            ![i].doc = IF k = 0 THEN NoDoc ELSE users[k]]
    /\ UNCHANGED <<users, db, client, conns, created, form, closed>>

\* ----------------------------------------------------- the account router

\* The arguments create(name, email, password) receives from POST /create, which
\* passes one object: it lands in `name`, and email and password are undefined.
\* The object is <<name, email, hashedPassword, accountNumber>>.
createArgs(name, email, password, accountNumber) ==
    [name |-> <<name, email, "$2b$10$" \o password, accountNumber>>,
     email |-> Absent, password |-> Absent]

\* A POST /create request arrives; dal.find(email) is called.
PostCreate(i) ==
    /\ reqs[i].pc = "idle"
    /\ \E e \in Emails :
          enter(i, [Idle EXCEPT !.op = "POST /create", !.email = e,
                                !.prior = (e \in created)])
    /\ UNCHANGED <<users, db, client, created, form, closed>>

\* const users = await dal.find(email); 409 when one matches, otherwise the
\* account number is drawn and bcrypt.hash awaited.
postCreate_find(i) ==
    /\ reqs[i].pc = "find"
    /\ IF findOne(users, reqs[i].email) # 0
       THEN reqs' = [reqs EXCEPT ![i].pc = "done", ![i].status = 409]
       ELSE \E n \in AccountNumbers :
               reqs' = [reqs EXCEPT ![i].pc = "create", ![i].acct = n]
    /\ UNCHANGED <<users, db, client, conns, created, form, closed>>

\* const user = await dal.create({ name, email, password: hashedPassword,
\* accountNumber }); 201 with the inserted document, 500 when insertOne throws.
postCreate_create(i) ==
    /\ reqs[i].pc = "create"
    /\ LET r == reqs[i]
           args == createArgs("Ana", r.email, "secret", r.acct)
           doc == createDoc(args.name, args.email, args.password)
       IN IF duplicateKey(users, doc)
          THEN /\ users' = users
               /\ created' = created
               /\ reqs' = [reqs EXCEPT ![i].pc = "done", ![i].status = 500,
                                       ![i].outcome = "DuplicateKey"]
          ELSE /\ users' = insertOne(users, doc)
               /\ created' = created \cup {r.email}
               /\ reqs' = [reqs EXCEPT ![i].pc = "done", ![i].status = 201,
                                       ![i].outcome = "ok"]
    /\ UNCHANGED <<db, client, conns, form, closed>>

\* ------------------------------------- deposits, withdrawals and look-ups
\* POST /deposit: dal.deposit(email, parseFloat(amount)) is called.
PostDeposit(i) ==
    /\ reqs[i].pc = "idle"
    /\ \E e \in Emails, t \in AmountTexts :
          enter(i, [Idle EXCEPT !.op = "deposit", !.via = "POST /deposit",
                                !.email = e, !.amount = parseFloat(t)])
    /\ UNCHANGED <<users, db, client, created, form, closed>>

\* POST /withdraw: dal.withdraw(email, parseFloat(amount)) is called.
PostWithdraw(i) ==
    /\ reqs[i].pc = "idle"
    /\ \E e \in Emails, t \in AmountTexts :
          enter(i, [Idle EXCEPT !.op = "withdraw", !.via = "POST /withdraw",
                                !.email = e, !.amount = parseFloat(t)])
    /\ UNCHANGED <<users, db, client, created, form, closed>>

\* GET /balance/:email: dal.findOne(email) is called.
GetBalance(i) ==
    /\ reqs[i].pc = "idle"
    /\ \E e \in Emails :
          enter(i, [Idle EXCEPT !.op = "findOne", !.via = "GET /balance/:email",
                                !.email = e])
    /\ UNCHANGED <<users, db, client, created, form, closed>>

\* POST /findOne: dal.findOne(email) is called.
PostFindOne(i) ==
    /\ reqs[i].pc = "idle"
    /\ \E e \in Emails :
          enter(i, [Idle EXCEPT !.op = "findOne", !.via = "POST /findOne",
                                !.email = e])
    /\ UNCHANGED <<users, db, client, created, form, closed>>

\* findOne(email) of the repository: it throws when the store finds nothing.
\* GET /balance answers with the balance, POST /findOne with the whole document.
dal_findOne(i) ==
    /\ reqs[i].pc = "findOne user"
    /\ LET r == reqs[i]
           k == findOne(users, r.email)
           err == IF k = 0 THEN "NotFound" ELSE "ok"
       IN reqs' = [reqs EXCEPT ![i].pc = "done", ![i].outcome = err,
                               ![i].status = respond(r.via, err, k # 0),
                               ![i].ret = IF k # 0 /\ r.via = "GET /balance/:email"
                                          THEN users[k].balance ELSE 0,
                               ![i].doc = IF k # 0 /\ r.via # "GET /balance/:email"
                                          THEN users[k] ELSE NoDoc]
    /\ UNCHANGED <<users, db, client, conns, created, form, closed>>

\* ------------------------------------------------------- the reading routes
\* GET /profile: dal.findOne(email) is called; the answer is the document.
GetProfile(i) ==
    /\ reqs[i].pc = "idle"
    /\ \E e \in Emails :
          enter(i, [Idle EXCEPT !.op = "findOne", !.via = "GET /profile",
                                !.email = e])
    /\ UNCHANGED <<users, db, client, created, form, closed>>

\* POST /find: dal.find(email) is called.
PostFind(i) ==
    /\ reqs[i].pc = "idle"
    /\ \E e \in Emails :
          enter(i, [Idle EXCEPT !.op = "find", !.via = "POST /find", !.email = e])
    /\ UNCHANGED <<users, db, client, created, form, closed>>

\* find({ email }).toArray(): 404 for an empty array, otherwise 200 with it.
postFind_find(i) ==
    /\ reqs[i].pc = "find users"
    /\ LET found == {k \in 1..Len(users) : users[k].email = reqs[i].email} IN
       reqs' = [reqs EXCEPT ![i].pc = "done", ![i].outcome = "ok",
                            ![i].status = respond(reqs[i].via, "ok", found # {}),
                            ![i].ret = Cardinality(found)]
    /\ UNCHANGED <<users, db, client, conns, created, form, closed>>

\* GET /all: dal.all() is called.
GetAll(i) ==
    /\ reqs[i].pc = "idle"
    /\ enter(i, [Idle EXCEPT !.op = "all", !.via = "GET /all"])
    /\ UNCHANGED <<users, db, client, created, form, closed>>

\* find({}).toArray(): 200 with every document.
getAll_all(i) ==
    /\ reqs[i].pc = "all users"
    /\ reqs' = [reqs EXCEPT ![i].pc = "done", ![i].outcome = "ok",
                            ![i].status = respond(reqs[i].via, "ok", TRUE),
                            ![i].ret = Len(users)]
    /\ UNCHANGED <<users, db, client, conns, created, form, closed>>

\* GET /data: dal.findUserByEmail(email) is called.
GetData(i) ==
    /\ reqs[i].pc = "idle"
    /\ \E e \in Emails :
          enter(i, [Idle EXCEPT !.op = "data", !.via = "GET /data", !.email = e])
    /\ UNCHANGED <<users, db, client, created, form, closed>>

\* findUserByEmail(email): it throws when nothing matches, otherwise returns
\* { accountNumber, accountType, balance, name, phoneNumber } of the document.
getData_find(i) ==
    /\ reqs[i].pc = "findUserByEmail data"
    /\ LET r == reqs[i]
           k == findOne(users, r.email)
           err == IF k = 0 THEN "NotFound" ELSE "ok"
       IN reqs' = [reqs EXCEPT ![i].pc = "done", ![i].outcome = err,
                               ![i].status = respond(r.via, err, k # 0),
                               ![i].doc = IF k = 0 THEN NoDoc
                                          ELSE [accountNumber |-> users[k].accountNumber,
                                                accountType |-> users[k].accountType,
                                                balance |-> users[k].balance,
                                                name |-> users[k].name,
                                                phoneNumber |-> Absent]]
    /\ UNCHANGED <<users, db, client, conns, created, form, closed>>

\* ------------------------------------------- profile and bank-account routes
\* The password field of the Edit Profile form: left blank, or filled in.
Blank == ""
FormPasswords == {Blank, "secret"}

\* POST /update, as the Edit Profile form submits it (the whole formData):
\* dal.update(email, { name, password }) is called.
PostUpdate(i) ==
    /\ reqs[i].pc = "idle"
    /\ \E e \in Emails, n \in {"Ana", "Bob"}, pw \in FormPasswords :
          enter(i, [Idle EXCEPT !.op = "update", !.via = "POST /update",
                                !.email = e,
                                !.data = [name |-> Str(n), password |-> pw]])
    /\ UNCHANGED <<users, db, client, created, form, closed>>

\* POST /createbank: dal.createBankAccount(email, accountType) is called, which
\* draws the number and calls update.
PostCreateBank(i) ==
    /\ reqs[i].pc = "idle"
    /\ \E e \in Emails, n \in AccountNumbers, t \in AccountTypes :
          enter(i, [Idle EXCEPT !.op = "update", !.via = "POST /createbank",
                                !.email = e,
                                !.data = [accountNumber |-> n, accountType |-> t]])
    /\ UNCHANGED <<users, db, client, created, form, closed>>

\* PUT /update-profile: dal.findUserByEmail(email) is called.
PutUpdateProfile(i) ==
    /\ reqs[i].pc = "idle"
    /\ \E e \in Emails, n \in {"Ana", "Bob"} :
          enter(i, [Idle EXCEPT !.op = "update-profile",
                                !.via = "PUT /update-profile", !.email = e,
                                !.data = [name |-> Str(n), phoneNumber |-> "555"]])
    /\ UNCHANGED <<users, db, client, created, form, closed>>

\* findUserByEmail(email) throws when nothing matches and otherwise returns a
\* plain object of five fields; the handler sets name and phoneNumber on that
\* object and calls its save(), which it does not have: a TypeError, caught.
putUpdateProfile_find(i) ==
    /\ reqs[i].pc = "findUserByEmail"
    /\ LET r == reqs[i]
           k == findOne(users, r.email)
           err == IF k = 0 THEN "NotFound" ELSE "TypeError"
       IN reqs' = [reqs EXCEPT ![i].pc = "done", ![i].outcome = err,
                               ![i].status = respond(r.via, err, k # 0)]
    /\ UNCHANGED <<users, db, client, conns, created, form, closed>>

\* -------------------------------------------------------- the Withdraw form
\* The email field of the form changes to e: setEmail(e), and the effect on
\* [email] runs; with a non-empty email it sets loadingBalance and sends
\* GET /account/balance/<email>.
setEmail(i) ==
    /\ reqs[i].pc = "idle"
    /\ \E e \in Emails \cup {""} :
          /\ e # form.email
          /\ IF e = ""
             THEN /\ form' = [form EXCEPT !.email = e]
                  /\ UNCHANGED <<reqs, conns>>
             ELSE /\ form' = [form EXCEPT !.email = e, !.loadingBalance = TRUE]
                  /\ enter(i, [Idle EXCEPT !.op = "findOne",
                                           !.via = "GET /balance/:email",
                                           !.email = e])
    /\ UNCHANGED <<users, db, client, created, closed>>

\* The response of a balance request reaches the form: setBalance(data.balance),
\* undefined when the response is an error message, and setLoadingBalance(false).
receiveBalance(i) ==
    /\ reqs[i].pc = "done"
    /\ reqs[i].via = "GET /balance/:email"
    /\ form' = [form EXCEPT !.balance = IF reqs[i].status = 200
                                         THEN Num(reqs[i].ret) ELSE Undefined,
                             !.loadingBalance = FALSE,
                             !.fetched = TRUE]
    /\ reqs' = [reqs EXCEPT ![i] = Idle]
    /\ UNCHANGED <<users, db, client, conns, created, closed>>

\* --------------------------------------------------------------- disconnect
\* disconnectFromMongo(): if (client) await client.close(); db and client keep
\* their values.
disconnectFromMongo ==
    /\ client # 0
    /\ closed' = closed \cup {client}
    /\ UNCHANGED <<users, db, client, conns, reqs, created, form>>

\* ------------------------------------------------------------------ login
\* The password of a login request; Absent when the body has none.
Passwords == {"secret", "wrong", Absent}

\* POST /login: dal.find(email) is called.
PostLogin(i) ==
    /\ reqs[i].pc = "idle"
    /\ \E e \in Emails, pw \in Passwords :
          enter(i, [Idle EXCEPT !.op = "POST /login", !.via = "POST /login",
                                !.email = e, !.password = pw])
    /\ UNCHANGED <<users, db, client, created, form, closed>>

\* const users = await dal.find(email): 404 when empty, otherwise users[0] is
\* kept and bcrypt.compare is started.
postLogin_find(i) ==
    /\ reqs[i].pc = "login find"
    /\ LET k == findOne(users, reqs[i].email) IN
       IF k = 0
       THEN reqs' = [reqs EXCEPT ![i].pc = "done", ![i].status = 404]
       ELSE reqs' = [reqs EXCEPT ![i].pc = "compare", ![i].doc = users[k]]
    /\ UNCHANGED <<users, db, client, conns, created, form, closed>>

\* The callback of bcrypt.compare: 401 on an error or a mismatch, otherwise the
\* token is signed and set as the Authorization header, and 200 is answered
\* with { email, name } of the user found.
postLogin_compare(i) ==
    /\ reqs[i].pc = "compare"
    /\ LET r == reqs[i] IN
       IF bcryptCompare(r.password, r.doc.password) # "match"
       THEN reqs' = [reqs EXCEPT ![i].pc = "done", ![i].status = 401,
                                 ![i].doc = NoDoc]
       ELSE reqs' = [reqs EXCEPT ![i].pc = "done", ![i].status = 200,
                                 ![i].token = TRUE,
                                 ![i].doc = [email |-> r.doc.email,
                                             name |-> r.doc.name]]
    /\ UNCHANGED <<users, db, client, conns, created, form, closed>>

\* -------------------------------------------------------- specifications

\* Concurrent deposits and withdrawals.
Next ==
    \E i \in Callers :
        \/ Call(i)
        \/ connectToMongo(i)
        \/ deposit(i)
        \/ withdraw_findOne(i)
        \/ withdraw_findOneAndUpdate(i)
        \/ Return(i)

Spec == Init /\ [][Next]_vars

\* Concurrent withdrawals of positive amounts, and nothing else.
WithdrawNext ==
    \E i \in Callers :
        \/ CallWithdraw(i)
        \/ connectToMongo(i)
        \/ withdraw_findOne(i)
        \/ withdraw_findOneAndUpdate(i)
        \/ Return(i)

WithdrawSpec == Init /\ [][WithdrawNext]_vars

\* The repository functions called one at a time.
SeqNext ==
    \E i \in Callers :
        \/ SeqCall(i)
        \/ Scenario(i)
        \/ Continue(i)
        \/ connectToMongo(i)
        \/ create(i)
        \/ deposit(i)
        \/ withdraw_findOne(i)
        \/ withdraw_findOneAndUpdate(i)
        \/ Return(i)

SeqSpec == Init /\ [][SeqNext]_vars

\* Concurrent account creation, through the repository and through the router.
CreateNext ==
    \E i \in Callers :
        \/ CallCreate(i)
        \/ PostCreate(i)
        \/ connectToMongo(i)
        \/ create(i)
        \/ postCreate_find(i)
        \/ postCreate_create(i)
        \/ Return(i)

CreateSpec == Init /\ [][CreateNext]_vars

\* Concurrent account creation and bank-account creation.
AccountNext ==
    \E i \in Callers :
        \/ CallCreate(i)
        \/ createBankAccount(i)
        \/ connectToMongo(i)
        \/ create(i)
        \/ update_updateOne(i)
        \/ update_findOne(i)
        \/ Return(i)

AccountSpec == Init /\ [][AccountNext]_vars

\* Concurrent updates of records.
UpdateNext ==
    \E i \in Callers :
        \/ CallUpdate(i)
        \/ connectToMongo(i)
        \/ update_updateOne(i)
        \/ update_findOne(i)
        \/ Return(i)

UpdateSpec == Init /\ [][UpdateNext]_vars

\* Concurrent deposit, withdrawal and look-up requests to the router.
LedgerNext ==
    \E i \in Callers :
        \/ PostDeposit(i)
        \/ PostWithdraw(i)
        \/ GetBalance(i)
        \/ PostFindOne(i)
        \/ connectToMongo(i)
        \/ deposit(i)
        \/ withdraw_findOne(i)
        \/ withdraw_findOneAndUpdate(i)
        \/ dal_findOne(i)
        \/ Return(i)

LedgerSpec == Init /\ [][LedgerNext]_vars

\* Concurrent profile updates and bank-account creations through the router.
ProfileNext ==
    \E i \in Callers :
        \/ PostUpdate(i)
        \/ PostCreateBank(i)
        \/ PutUpdateProfile(i)
        \/ connectToMongo(i)
        \/ update_updateOne(i)
        \/ update_findOne(i)
        \/ putUpdateProfile_find(i)
        \/ Return(i)

ProfileSpec == Init /\ [][ProfileNext]_vars

\* The Withdraw form and the balance requests it has in flight.
FormNext ==
    \E i \in Callers :
        \/ setEmail(i)
        \/ connectToMongo(i)
        \/ dal_findOne(i)
        \/ receiveBalance(i)

FormSpec == Init /\ [][FormNext]_vars

\* Withdrawals, with the connection closed at any moment.
DisconnectNext ==
    \/ \E i \in Callers :
          \/ CallWithdraw(i)
          \/ connectToMongo(i)
          \/ withdraw_findOne(i)
          \/ withdraw_findOneAndUpdate(i)
          \/ Return(i)
    \/ disconnectFromMongo

DisconnectSpec == Init /\ [][DisconnectNext]_vars

\* Every route of the account router, one request after the other.
RouterNext ==
    \E i \in Callers :
        \/ Quiet(i) /\ PostCreate(i)
        \/ Quiet(i) /\ PostLogin(i)
        \/ Quiet(i) /\ PostFind(i)
        \/ Quiet(i) /\ PostFindOne(i)
        \/ Quiet(i) /\ PostUpdate(i)
        \/ Quiet(i) /\ PostDeposit(i)
        \/ Quiet(i) /\ PostWithdraw(i)
        \/ Quiet(i) /\ GetAll(i)
        \/ Quiet(i) /\ GetBalance(i)
        \/ Quiet(i) /\ GetData(i)
        \/ Quiet(i) /\ GetProfile(i)
        \/ Quiet(i) /\ PutUpdateProfile(i)
        \/ Quiet(i) /\ PostCreateBank(i)
        \/ connectToMongo(i)
        \/ postCreate_find(i)
        \/ postCreate_create(i)
        \/ postLogin_find(i)
        \/ postLogin_compare(i)
        \/ postFind_find(i)
        \/ dal_findOne(i)
        \/ update_updateOne(i)
        \/ update_findOne(i)
        \/ deposit(i)
        \/ withdraw_findOne(i)
        \/ withdraw_findOneAndUpdate(i)
        \/ getAll_all(i)
        \/ getData_find(i)
        \/ putUpdateProfile_find(i)
        \/ Return(i)

RouterSpec == Init /\ [][RouterNext]_vars

\* Concurrent logins.
LoginNext ==
    \E i \in Callers :
        \/ PostLogin(i)
        \/ connectToMongo(i)
        \/ postLogin_find(i)
        \/ postLogin_compare(i)
        \/ Return(i)

LoginSpec == Init /\ [][LoginNext]_vars

\* Concurrent requests to the router.
HttpNext ==
    \E i \in Callers :
        \/ PostCreate(i)
        \/ connectToMongo(i)
        \/ postCreate_find(i)
        \/ postCreate_create(i)
        \/ Return(i)

HttpSpec == Init /\ [][HttpNext]_vars

\* ------------------------------------------------------------ properties

\* The balance of the record with this email (0 when there is none).
balanceOf(coll, email) ==
    LET k == findOne(coll, email) IN IF k = 0 THEN 0 ELSE coll[k].balance

\* This step is caller i's deposit command, withdraw's read, withdraw's write.
depositStep(i) ==
    reqs[i].op = "deposit" /\ reqs[i].pc = "findOneAndUpdate" /\ reqs'[i].pc = "done"
withdrawReadStep(i) ==
    reqs[i].op = "withdraw" /\ reqs[i].pc = "findOne" /\ reqs'[i].pc # "findOne"
withdrawWriteStep(i) ==
    reqs[i].op = "withdraw" /\ reqs[i].pc = "findOneAndUpdate" /\ reqs'[i].pc = "done"

\* C1: under any interleaving of concurrent withdraw calls with positive
\* amounts, on records whose balance starts >= 0, every balance stays >= 0 (so
\* of two concurrent withdraw(email, B) against balance B only one succeeds).
C1_NeverOverdrawn ==
    \A k \in 1..Len(users) : users[k].balance >= 0

\* C2: deposit(email, amount) with amount <= 0 on an existing record fails with
\* InvalidAmount and leaves the stored balance as it was.
C2_DepositRejected ==
    [][\A i \in Callers :
          (/\ depositStep(i)
           /\ reqs[i].amount <= 0
           /\ findOne(users, reqs[i].email) # 0)
          => /\ reqs'[i].outcome = "InvalidAmount"
             /\ users' = users]_vars

\* C3: one call at a time, withdraw(email, amount) with amount > 0 on a record
\* with balance B >= amount (B = amount included) passes its checks, writes the
\* collection once, and returns and stores B - amount.
C3_SequentialWithdraw ==
    [][\A i \in Callers :
          LET r == reqs[i]
              k == findOne(users, r.email)
          IN /\ (withdrawReadStep(i) /\ r.amount > 0 /\ k # 0
                   /\ users[k].balance >= r.amount)
                => /\ reqs'[i].pc = "findOneAndUpdate"
                   /\ reqs'[i].bal = users[k].balance
                   /\ users' = users
             /\ withdrawWriteStep(i)
                => /\ k # 0
                   /\ r.bal = users[k].balance
                   /\ reqs'[i].outcome = "ok"
                   /\ reqs'[i].ret = r.bal - r.amount
                   /\ users' = [users EXCEPT ![k].balance = r.bal - r.amount]
             /\ (r.op = "withdraw" /\ reqs'[i] # r /\ ~withdrawWriteStep(i))
                => users' = users]_vars

C3_Witness ==
    \E i \in Callers :
        /\ reqs[i].op = "withdraw" /\ reqs[i].pc = "done" /\ reqs[i].outcome = "ok"
        /\ reqs[i].amount > 0 /\ reqs[i].ret = 0
        /\ balanceOf(users, reqs[i].email) = 0

\* C4: withdraw(email, amount) with amount > 0 above the current balance of an
\* existing record fails with InsufficientFunds and writes nothing.
C4_InsufficientFunds ==
    [][\A i \in Callers :
          LET r == reqs[i]
              k == findOne(users, r.email)
          IN (withdrawReadStep(i) /\ r.amount > 0 /\ k # 0
                /\ r.amount > users[k].balance)
             => /\ reqs'[i].pc = "done"
                /\ reqs'[i].outcome = "InsufficientFunds"
                /\ users' = users]_vars

C4_Witness ==
    \E i \in Callers :
        /\ reqs[i].op = "withdraw" /\ reqs[i].pc = "done"
        /\ reqs[i].outcome = "InsufficientFunds"
        /\ findOne(users, reqs[i].email) # 0
        /\ reqs[i].amount > balanceOf(users, reqs[i].email)

\* C5: withdraw(email, amount) with amount <= 0 fails with InvalidAmount, and no
\* step of the call changes any record.
C5_WithdrawRejected ==
    [][\A i \in Callers :
          LET r == reqs[i] IN
          (r.op = "withdraw" /\ r.amount <= 0 /\ reqs'[i] # r)
          => /\ users' = users
             /\ withdrawReadStep(i)
                => reqs'[i].pc = "done" /\ reqs'[i].outcome = "InvalidAmount"
             /\ r.pc # "findOneAndUpdate"]_vars

C5_Witness ==
    \E i \in Callers :
        /\ reqs[i].op = "withdraw" /\ reqs[i].pc = "done"
        /\ reqs[i].amount <= 0 /\ reqs[i].outcome = "InvalidAmount"
        /\ findOne(users, reqs[i].email) # 0

\* C6: whatever else is in flight, a deposit of amount > 0 on an existing record
\* adds amount to the balance the record has at that moment, once, and returns
\* the new balance; no other step of a deposit call touches the collection.
C6_DepositAtomic ==
    [][\A i \in Callers :
          LET r == reqs[i]
              k == findOne(users, r.email)
          IN /\ (depositStep(i) /\ r.amount > 0 /\ k # 0)
                => /\ users' = [users EXCEPT ![k].balance = users[k].balance + r.amount]
                   /\ reqs'[i].outcome = "ok"
                   /\ reqs'[i].ret = users[k].balance + r.amount
             /\ (r.op = "deposit" /\ reqs'[i] # r /\ ~depositStep(i))
                => users' = users]_vars

\* Two deposits on the same record, both called before either returned.
C6_Witness ==
    /\ \A i \in Callers :
          /\ reqs[i].op = "deposit" /\ reqs[i].pc = "done" /\ reqs[i].outcome = "ok"
          /\ reqs[i].email = "ana@x.com" /\ reqs[i].amount > 0
    /\ \E i, j \in Callers : reqs[i].ret = reqs[j].ret + reqs[i].amount

\* C7: with amount > 0 and an email no record has, deposit and withdraw fail
\* with NotFound, and the collection is the same after as before.
C7_NotFound ==
    [][\A i \in Callers :
          LET r == reqs[i] IN
          (r.amount > 0 /\ findOne(users, r.email) = 0)
          => /\ depositStep(i)
                => reqs'[i].outcome = "NotFound" /\ users' = users
             /\ withdrawReadStep(i)
                => /\ reqs'[i].pc = "done" /\ reqs'[i].outcome = "NotFound"
                   /\ users' = users]_vars

C7_Witness ==
    \E i, j \in Callers :
        /\ reqs[i].op = "deposit" /\ reqs[j].op = "withdraw"
        /\ \A c \in {i, j} :
              /\ reqs[c].pc = "done" /\ reqs[c].outcome = "NotFound"
              /\ reqs[c].amount > 0 /\ findOne(users, reqs[c].email) = 0

C9_CreatedRecord ==
    \A i \in Callers :
        LET r == reqs[i] IN
        (r.op = "POST /create" /\ r.pc = "done" /\ r.status = 201)
        => \E k \in 1..Len(users) :
              /\ users[k].email = r.email
              /\ users[k].balance = 0
              /\ users[k].accountNumber = r.acct

\* C10: a POST /create for an email for which an earlier POST /create had
\* already answered 201 is answered 409 and leaves the collection as it was.
C10_AlreadyExists ==
    [][\A i \in Callers :
          LET r == reqs[i] IN
          (r.op = "POST /create" /\ r.prior /\ reqs'[i] # r)
          => /\ users' = users
             /\ reqs'[i].pc = "done" => reqs'[i].status = 409]_vars

\* C11: in every reachable state, concurrent account creations for the same
\* email included, no two records of the collection have the same email.
C11_UniqueEmail ==
    \A j, k \in 1..Len(users) : j # k => users[j].email # users[k].email

\* Two POST /create for one email were in flight together: both passed the
\* find, one inserted, the other's insert was rejected.
C11_Witness ==
    \E i, j \in Callers :
        /\ reqs[i].op = "POST /create" /\ reqs[j].op = "POST /create"
        /\ reqs[i].email = reqs[j].email
        /\ reqs[i].pc = "done" /\ reqs[i].status = 201
        /\ reqs[j].pc = "done" /\ reqs[j].outcome = "DuplicateKey"
        /\ Len(users) = 2

\* C12: in every reachable state, whatever numbers account creation and
\* createBankAccount draw, no two records have the same accountNumber.
C12_UniqueAccountNumber ==
    \A j, k \in 1..Len(users) :
        j # k => users[j].accountNumber # users[k].accountNumber

\* createBankAccount drew the number another record holds and was rejected.
C12_Witness ==
    \E i \in Callers :
        LET r == reqs[i]
            k == findOne(users, r.email)
        IN /\ r.via = "createBankAccount" /\ r.pc = "done"
           /\ r.outcome = "DuplicateKey"
           /\ k # 0
           /\ \E j \in 1..Len(users) :
                 j # k /\ users[j].accountNumber = r.data.accountNumber

\* C19: MongoClient.connect is performed at most once, whatever calls start
\* before the first connection attempt has completed.
C19_SingleConnect == conns <= 1

\* This step is update's updateOne command, update's findOne command.
updateOneStep(i) == reqs[i].pc = "updateOne" /\ reqs'[i] # reqs[i]
updateFindStep(i) == reqs[i].pc = "findOne after update" /\ reqs'[i] # reqs[i]

answers(i) == reqs[i].pc # "done" /\ reqs'[i].pc = "done"

\* C13: no response with status 200 or 201 carries the record's password.
C13_NoPassword ==
    \A i \in Callers :
        (reqs[i].pc = "done" /\ reqs[i].status \in {200, 201})
        => "password" \notin DOMAIN reqs[i].doc

\* C14: when no record has the request's email, POST /deposit and POST /withdraw
\* (of a positive amount) and GET /balance/:email answer 404.
C14_NotFound404 ==
    [][\A i \in Callers :
          LET r == reqs[i] IN
          (/\ answers(i)
           /\ r.via \in {"POST /deposit", "POST /withdraw", "GET /balance/:email"}
           /\ r.op = "findOne" \/ lessThan(0, r.amount)
           /\ findOne(users, r.email) = 0)
          => reqs'[i].status = 404]_vars

\* C15: POST /withdraw of a positive amount above the balance of the existing
\* record answers 404 and leaves the balance as it was.
C15_Insufficient404 ==
    [][\A i \in Callers :
          LET r == reqs[i]
              k == findOne(users, r.email)
          IN (/\ withdrawReadStep(i)
              /\ r.via = "POST /withdraw"
              /\ k # 0
              /\ lessThan(0, r.amount)
              /\ lessThan(users[k].balance, r.amount))
             => /\ reqs'[i].pc = "done"
                /\ reqs'[i].status = 404
                /\ users' = users]_vars

\* C16: POST /deposit and POST /withdraw with an amount <= 0 answer 400.
C16_NonPositive400 ==
    [][\A i \in Callers :
          LET r == reqs[i] IN
          (/\ answers(i)
           /\ r.via \in {"POST /deposit", "POST /withdraw"}
           /\ atMost(r.amount, 0))
          => reqs'[i].status = 400]_vars

\* C17: a POST /deposit or POST /withdraw whose amount parses to NaN makes no
\* store write: no step of the request changes the collection, and every
\* balance stays a number.
C17_NaNRejected ==
    [][\A i \in Callers :
          LET r == reqs[i] IN
          (/\ r.via \in {"POST /deposit", "POST /withdraw"}
           /\ r.amount = NaN
           /\ reqs'[i] # r)
          => /\ users' = users
             /\ \A k \in 1..Len(users') : users'[k].balance # NaN]_vars

\* C18: POST /login answers 404 when no record has the email; 401 when one has
\* and the password check fails or errs; 200 with { email, name } of the record
\* and a bearer token header only when the check succeeds. No step of a login
\* changes a record.
C18_Login ==
    [][\A i \in Callers :
          LET r == reqs[i]
              k == findOne(users, r.email)
          IN (r.op = "POST /login" /\ reqs'[i] # r)
             => /\ users' = users
                /\ (r.pc = "login find" /\ k = 0)
                   => /\ reqs'[i].pc = "done" /\ reqs'[i].status = 404
                      /\ ~reqs'[i].token
                /\ (r.pc = "login find" /\ k # 0)
                   => reqs'[i].pc = "compare" /\ reqs'[i].doc = users[k]
                /\ r.pc = "compare"
                   => /\ reqs'[i].pc = "done"
                      /\ IF r.password # Absent /\ r.doc.password # Absent
                            /\ r.doc.password = "$2b$10$" \o r.password
                         THEN /\ reqs'[i].status = 200
                              /\ reqs'[i].token
                              /\ reqs'[i].doc = [email |-> r.email,
                                                 name |-> r.doc.name]
                         ELSE /\ reqs'[i].status = 401
                              /\ ~reqs'[i].token
                              /\ reqs'[i].doc = NoDoc]_vars

\* One login was let in with a token; another, whose body had no password,
\* ended in the comparison's error and was refused.
C18_Witness ==
    \E i, j \in Callers :
        /\ reqs[i].op = "POST /login" /\ reqs[i].pc = "done"
        /\ reqs[i].status = 200 /\ reqs[i].token
        /\ reqs[i].doc = [email |-> "ana@x.com", name |-> Str("Ana")]
        /\ reqs[j].op = "POST /login" /\ reqs[j].pc = "done"
        /\ reqs[j].email = "ana@x.com" /\ reqs[j].password = Absent
        /\ reqs[j].status = 401 /\ ~reqs[j].token

\* C25: withdraw fails with InvalidAmount when amount <= 0, a missing record
\* notwithstanding, and with NotFound when amount > 0 and no record matches;
\* a withdraw that fails issues no store write.
C25_FailureOrder ==
    [][\A i \in Callers :
          LET r == reqs[i]
              k == findOne(users, r.email)
          IN withdrawReadStep(i)
             => /\ r.amount <= 0
                   => reqs'[i].pc = "done" /\ reqs'[i].outcome = "InvalidAmount"
                /\ (r.amount > 0 /\ k = 0)
                   => reqs'[i].pc = "done" /\ reqs'[i].outcome = "NotFound"
                /\ (r.amount > 0 /\ k # 0 /\ users[k].balance < r.amount)
                   => reqs'[i].pc = "done" /\ reqs'[i].outcome = "InsufficientFunds"
                /\ reqs'[i].pc = "done"
                   => /\ reqs'[i].outcome # "ok"
                      /\ users' = users]_vars

\* A withdraw of a non-positive amount for an email without a record has
\* failed with InvalidAmount.
C25_Witness ==
    \E i \in Callers :
        /\ reqs[i].op = "withdraw" /\ reqs[i].pc = "done"
        /\ reqs[i].amount <= 0 /\ findOne(users, reqs[i].email) = 0
        /\ reqs[i].outcome = "InvalidAmount"

\* C26: no step of a deposit or withdraw on email e, failing or not, changes
\* another record or any field but the balance of the record with email e.
C26_Frame ==
    [][\A i \in Callers :
          LET r == reqs[i] IN
          (r.op \in {"deposit", "withdraw"} /\ reqs'[i] # r)
          => /\ Len(users') = Len(users)
             /\ \A k \in 1..Len(users) :
                   /\ users[k].email # r.email => users'[k] = users[k]
                   /\ \A f \in DOMAIN users[k] \ {"balance"} :
                         users'[k][f] = users[k][f]]_vars

\* A deposit went through while the collection held a second record.
C26_Witness ==
    \E i \in Callers :
        /\ reqs[i].op = "deposit" /\ reqs[i].pc = "done" /\ reqs[i].outcome = "ok"
        /\ reqs[i].amount > 0 /\ reqs[i].ret > 0
        /\ Len(users) = 2
        /\ \E k \in 1..Len(users) : users[k].email # reqs[i].email

\* C21: when POST /createbank answers 200, the record with the request's email
\* has the requested accountType and the number drawn, and the response's user
\* is that record.
C21_CreateBank200 ==
    [][\A i \in Callers :
          LET r == reqs[i]
              k == findOne(users', r.email)
          IN (answers(i) /\ r.via = "POST /createbank" /\ reqs'[i].status = 200)
             => /\ k # 0
                /\ users'[k].accountType = r.data.accountType
                /\ users'[k].accountNumber = r.data.accountNumber
                /\ reqs'[i].doc = users'[k]]_vars

\* C22: PUT /update-profile for an email a record has answers 200 and leaves
\* the record with the request's name and phoneNumber; for an email no record
\* has it answers 404 and changes nothing.
C22_UpdateProfile ==
    [][\A i \in Callers :
          LET r == reqs[i]
              k == findOne(users, r.email)
          IN (answers(i) /\ r.via = "PUT /update-profile")
             => IF k # 0
                THEN /\ reqs'[i].status = 200
                     /\ users'[k].name = r.data.name
                     /\ "phoneNumber" \in DOMAIN users'[k]
                     /\ users'[k].phoneNumber = r.data.phoneNumber
                ELSE /\ reqs'[i].status = 404
                     /\ users' = users]_vars

\* C23: a POST /update sent by the Edit Profile form with the password left
\* blank leaves the stored password of the record as it was.
C23_BlankPasswordKept ==
    [][\A i \in Callers :
          LET r == reqs[i]
              k == findOne(users, r.email)
          IN (r.via = "POST /update" /\ r.data.password = Blank
                /\ reqs'[i] # r /\ k # 0)
             => users'[k].password = users[k].password]_vars

\* C27: POST /update answers 404 only when no record has the request's email;
\* when one has, it answers 200.
C27_Update404 ==
    [][\A i \in Callers :
          LET r == reqs[i]
              k == findOne(users, r.email)
          IN (answers(i) /\ r.via = "POST /update")
             => /\ reqs'[i].status = 404 => k = 0
                /\ k # 0 => reqs'[i].status = 200]_vars

\* C28: in the Withdraw form, when loadingBalance is false and a balance fetch
\* has completed, the balance shown is the one the server holds for the email
\* now entered (undefined when no record has it).
C28_FormBalance ==
    (form.fetched /\ ~form.loadingBalance /\ form.email # "")
    => form.balance = IF findOne(users, form.email) = 0 THEN Undefined
                      ELSE Num(balanceOf(users, form.email))

\* C29: a repository call that finds db set, and goes on with it, never gets
\* the db of a client that has been closed.
C29_LiveConnection ==
    [][\A i \in Callers :
          (reqs[i].pc = "idle" /\ reqs'[i].pc \notin {"idle", "connecting"})
          => db \notin closed]_vars

\* C24: no step of any request to the account router removes a record: every
\* record of the collection is still there, under its email, after the step.
C24_NoDelete ==
    [][\A k \in 1..Len(users) :
          /\ k <= Len(users')
          /\ users'[k].email = users[k].email]_vars

\* A record was inserted next to an earlier one, whose bank account was then
\* changed: both are in the collection.
C24_Witness ==
    /\ Len(users) = 2
    /\ users[1].email = "ana@x.com"
    /\ users[2].email = Absent
    /\ \E i \in Callers :
          /\ reqs[i].via = "POST /createbank" /\ reqs[i].pc = "done"
          /\ reqs[i].doc # NoDoc

====
